---- MODULE Spec2Model ----
(***************************************************************************)
(* Model of src/server.js: the Stripe webhook relay that joins a payment   *)
(* event to a Squarespace order and writes a description back onto the     *)
(* payment intent.                                                         *)
(*                                                                         *)
(* Reading of the source.  server.js is stored as a rich-text export and   *)
(* its string delimiters are damaged (', left and right curly quotes and   *)
(* even ';' open strings that contain ${...}).  Every string that contains *)
(* ${...} is read as a template literal, which is the only reading under   *)
(* which lines 122, 130 and 156 are JavaScript at all.                     *)
(*                                                                         *)
(* Text is a sequence of one-character strings, so that trim, join, slice  *)
(* and encodeURIComponent are computed and not assumed.  A JavaScript      *)
(* value that may be null/undefined is NULL for identifiers and an option  *)
(* (<<>> or <<v>>) for text and for records.                               *)
(*                                                                         *)
(* An async handler is split at its awaits: one action runs the handler    *)
(* from one await to the next.                                             *)
(***************************************************************************)
EXTENDS Integers, Sequences, FiniteSets, TLC

VARIABLES
    pc,               \* where each request's handler is suspended
    request,          \* the raw body and stripe-signature header received
    event,            \* the verified event (route local `event`)
    paymentIntentId,  \* handleStripeEvent locals
    chargeId,
    charge,
    orderId,
    order,
    calls,            \* outbound calls issued, in order
    returns,          \* how each outbound call ended, in order
    responses,        \* responses written to res
    logs,             \* console.warn / console.error / console.log lines
    process           \* the node process: its environment and whether it listens

vars == <<pc, request, event, paymentIntentId, chargeId, charge, orderId, order,
          calls, returns, responses, logs, process>>

locals == <<paymentIntentId, chargeId, charge, orderId, order>>

----------------------------------------------------------------------------
(* Bounds *)

NumReqs == 2
MaxItems == 3
LongLen == 300

Reqs == 1..NumReqs

----------------------------------------------------------------------------
(* Program constants *)

DescLimit == 500
DefaultPort == 8080
STRIPE_WEBHOOK_SECRET == "whsec_live"
SS_BASE == "https://api.squarespace.com/1.0/commerce/orders"

NULL == "null"
None == <<>>
Some(v) == <<v>>

----------------------------------------------------------------------------
(* Text helpers *)

Min(a, b) == IF a < b THEN a ELSE b

IsWs(c) == c \in {" ", "\t"}

RECURSIVE TrimStart(_)
TrimStart(s) == IF s # <<>> /\ IsWs(Head(s)) THEN TrimStart(Tail(s)) ELSE s

RECURSIVE TrimEnd(_)
TrimEnd(s) ==
    IF s # <<>> /\ IsWs(s[Len(s)]) THEN TrimEnd(SubSeq(s, 1, Len(s) - 1)) ELSE s

(* mutation: trimStart in place of trim *)
Trim_StartOnly(s) == TrimStart(s)

Trim(s) == TrimEnd(TrimStart(s))

RECURSIVE Join(_, _)
Join(ss, sep) ==
    IF ss = <<>> THEN <<>>
    ELSE IF Len(ss) = 1 THEN ss[1]
    ELSE ss[1] \o sep \o Join(Tail(ss), sep)

(* mutation: the slice is left out *)
Slice_Whole(s, n) == s

Slice(s, n) == SubSeq(s, 1, Min(n, Len(s)))

Digit(d) == <<"0", "1", "2", "3", "4", "5", "6", "7", "8", "9">>[d + 1]

RECURSIVE ToDecimal(_)
ToDecimal(n) == IF n < 10 THEN <<Digit(n)>> ELSE ToDecimal(n \div 10) \o <<Digit(n % 10)>>

Unreserved ==
    {"a", "b", "o", "x", "A", "B", "0", "1", "2", "3", "4", "5", "6", "7", "8", "9",
     "-", "_", ".", "!", "~", "*", "'", "(", ")"}

PercentEncode(c) ==
    CASE c = "/" -> <<"%", "2", "F">>
      [] c = " " -> <<"%", "2", "0">>
      [] c = "?" -> <<"%", "3", "F">>
      [] OTHER   -> <<c>>

RECURSIVE encodeURIComponent(_)
encodeURIComponent(s) ==
    IF s = <<>> THEN <<>>
    ELSE (IF Head(s) \in Unreserved THEN <<Head(s)>> ELSE PercentEncode(Head(s)))
         \o encodeURIComponent(Tail(s))

----------------------------------------------------------------------------
(* JavaScript truthiness of optional text, and a || b *)

Truthy(o) == o # None /\ o[1] # <<>>

Or(a, b) == IF Truthy(a) THEN a ELSE b

----------------------------------------------------------------------------
(* Values the outside world can hand to the handler *)

ChargeIds == {"ch_1"}

(* event.type, split at its dots *)
PI_SUCCEEDED == <<"payment_intent", "succeeded">>
CHARGE_SUCCEEDED == <<"charge", "succeeded">>

EventTypes ==
    {PI_SUCCEEDED, CHARGE_SUCCEEDED, <<"payment_intent", "created">>, <<"charge", "refunded">>}

(* event.data.object of a payment-intent event and of a charge event *)
PaymentIntentObjects ==
    [id : {"pi_1"}, latest_charge : ChargeIds \cup {NULL}, payment_intent : {NULL}]

ChargeObjects ==
    [id : ChargeIds, latest_charge : {NULL}, payment_intent : {"pi_1", NULL}]

Events ==
    [type : {t \in EventTypes : t[1] = "payment_intent"}, object : PaymentIntentObjects]
    \cup [type : {t \in EventTypes : t[1] = "charge"}, object : ChargeObjects]

(* The stripe-signature header: absent, or a signature made with some key
   over some payload. *)
Secrets == {STRIPE_WEBHOOK_SECRET, "whsec_other"}

Signatures(ev) ==
    {None} \cup {Some([key |-> k, payload |-> e]) :
                    k \in Secrets, e \in {ev, [ev EXCEPT !.object.id = "forged"]}}

(* charge.metadata: Stripe never stores an empty value (an empty value
   unsets the key), so every key that is present has a non-empty value. *)
OrderIdKeys == {"metadataid", "orderid", "squarespace_order_id"}

KeyValue(k) ==
    CASE k = "metadataid" -> {<<"a", "/", "b">>}
      [] k = "orderid" -> {<<"o", "2">>}
      [] k = "squarespace_order_id" -> {<<"o", "3">>}
      [] OTHER -> {<<"x">>}

MetadataKeys == OrderIdKeys \cup {"note"}

Metadatas ==
    UNION { {md \in [S -> UNION {KeyValue(k) : k \in MetadataKeys}] :
                \A k \in S : md[k] \in KeyValue(k)} :
            S \in SUBSET OrderIdKeys \cup {{"note"}, {"note", "orderid", "squarespace_order_id"}} }

Charges(id) ==
    [id : {id}, metadata : {None} \cup {Some(md) : md \in Metadatas},
     payment_intent : {NULL, "pi_2"}]

(* pi.charges.data of a retrieved payment intent: absent, empty, one charge,
   or a charge followed by another one *)
SecondCharge ==
    [id |-> "ch_2", metadata |-> Some([metadataid |-> <<"a", "/", "b">>]), payment_intent |-> "pi_2"]

ChargeLists ==
    {None, Some(<<>>)}
    \cup {Some(<<ch>>) : ch \in UNION {Charges(id) : id \in ChargeIds}}
    \cup {Some(<<ch, SecondCharge>>) :
             ch \in {c \in UNION {Charges(id) : id \in ChargeIds} :
                        /\ c.payment_intent = NULL
                        /\ c.metadata \in {None, Some([orderid |-> <<"o", "2">>])}}}

(* what a caller can POST: a body with a stripe-signature header *)
Deliveries ==
    UNION {{[body |-> ev, sig |-> sg] : sg \in Signatures(ev)} : ev \in Events}

(* productName of a line item: absent, blank, plain, and long with padding *)
LongName == <<" ">> \o [i \in 1..LongLen |-> "x"] \o <<"\t">>

ProductNames == {None, Some(<<" ">>), Some(<<"A">>), Some(<<"B">>), Some(LongName)}

LineItems == [productName : ProductNames]

RECURSIVE SeqsUpTo(_, _)
SeqsUpTo(S, n) ==
    IF n = 0 THEN {<<>>}
    ELSE LET shorter == SeqsUpTo(S, n - 1)
         IN  shorter \cup {Append(q, x) : q \in {p \in shorter : Len(p) = n - 1}, x \in S}

Orders ==
    [id : {"ord_9"}, orderNumber : {None, Some(<<"4", "2">>)},
     lineItems : {None} \cup {Some(q) : q \in SeqsUpTo(LineItems, MaxItems)}]

NonOkStatuses == {404, 500}

----------------------------------------------------------------------------
(* Pure parts of the handler *)

(* mutation: the signature is not compared with the payload received *)
constructEvent_KeyOnly(body, sig, secret) ==
    sig # None /\ sig[1].key = secret

(* stripe.webhooks.constructEvent: the header must be a signature made with
   the configured secret over exactly the raw body received. *)
constructEvent(body, sig, secret) ==
    sig # None /\ sig[1].key = secret /\ sig[1].payload = body

(* event.type.startsWith('payment_intent.') *)
IsPaymentIntentType(type) == Len(type) >= 2 /\ type[1] = "payment_intent"

(* mutation: the route filters with startsWith as handleStripeEvent does *)
IsProcessed_ByPrefix(type) == IsPaymentIntentType(type) \/ type = CHARGE_SUCCEEDED

(* the filter of the route: the two types that trigger processing *)
IsProcessed(type) == type = PI_SUCCEEDED \/ type = CHARGE_SUCCEEDED

(* identifier extraction of handleStripeEvent *)
EventPaymentIntentId(ev) ==
    IF IsPaymentIntentType(ev.type) THEN ev.object.id
    ELSE IF ev.type = CHARGE_SUCCEEDED THEN ev.object.payment_intent
    ELSE NULL

EventChargeId(ev) ==
    IF IsPaymentIntentType(ev.type) THEN ev.object.latest_charge
    ELSE IF ev.type = CHARGE_SUCCEEDED THEN ev.object.id
    ELSE NULL

(* mutation: the last charge of the list is taken *)
FirstCharge_Last(chs) ==
    IF chs = None \/ chs[1] = <<>> THEN None ELSE Some(chs[1][Len(chs[1])])

(* pi.charges?.data?.[0] || null *)
FirstCharge(chs) ==
    IF chs = None \/ chs[1] = <<>> THEN None ELSE Some(chs[1][1])

(* md.k for md = charge.metadata || {} *)
MdGet(md, k) == IF md # None /\ k \in DOMAIN md[1] THEN Some(md[1][k]) ELSE None

(* mutation: a fourth key is accepted as a last resort *)
OrderIdOf_ExtraKey(md) ==
    Or(MdGet(md, "metadataid"),
       Or(MdGet(md, "orderid"),
          Or(MdGet(md, "squarespace_order_id"), MdGet(md, "note"))))

(* mutation: the keys are consulted in the opposite order *)
OrderIdOf_Reversed(md) ==
    Or(MdGet(md, "squarespace_order_id"),
       Or(MdGet(md, "orderid"),
          Or(MdGet(md, "metadataid"), None)))

(* md.metadataid || md.orderid || md.squarespace_order_id || null *)
OrderIdOf(md) ==
    Or(MdGet(md, "metadataid"),
       Or(MdGet(md, "orderid"),
          Or(MdGet(md, "squarespace_order_id"), None)))

(* (li?.productName || '').trim() *)
TrimmedName(li) == Trim(IF Truthy(li.productName) THEN li.productName[1] ELSE <<>>)

(* mutation: the empty names are not filtered out *)
NamesOf_NoFilter(ord) ==
    LET items == IF ord.lineItems = None THEN <<>> ELSE ord.lineItems[1]
    IN  [i \in 1..Len(items) |-> TrimmedName(items[i])]

(* (order.lineItems || []).map(...).filter(Boolean) *)
NamesOf(ord) ==
    LET items == IF ord.lineItems = None THEN <<>> ELSE ord.lineItems[1]
    IN  SelectSeq([i \in 1..Len(items) |-> TrimmedName(items[i])], LAMBDA n : n # <<>>)

(* names.join(', ').slice(0, 500) *)
DescriptionOf(names) == Slice(Join(names, <<",", " ">>), DescLimit)

(* String(order.orderNumber || '') *)
OrderNumberString(ord) == IF Truthy(ord.orderNumber) THEN ord.orderNumber[1] ELSE <<>>

(* mutation: the line items are counted, not the names that survived *)
UpdateMetadata_CountItems(ord, names) ==
    [squarespace_order_id |-> ord.id,
     squarespace_order_number |-> OrderNumberString(ord),
     product_count |-> ToDecimal(IF ord.lineItems = None THEN 0 ELSE Len(ord.lineItems[1]))]

UpdateMetadata(ord, names) ==
    [squarespace_order_id |-> ord.id,
     squarespace_order_number |-> OrderNumberString(ord),
     product_count |-> ToDecimal(Len(names))]

(* the path handed to ssGet and the URL ssGet fetches *)
OrderPath(oid) == <<"/">> \o encodeURIComponent(oid)

OrderUrl(path) == <<SS_BASE>> \o path

----------------------------------------------------------------------------
(* State *)

ACK == [received |-> TRUE]
ACK_ERROR == [received |-> TRUE, error |-> TRUE]

Line(level, text, status) == [level |-> level, text |-> text, status |-> status]

(* process.env: each required value absent, empty or set; PORT absent or set *)
Envs ==
    [STRIPE_API_KEY : {None, Some(""), Some("sk_live")},
     STRIPE_WEBHOOK_SECRET : {None, Some(""), Some(STRIPE_WEBHOOK_SECRET)},
     SQUARESPACE_API_KEY : {None, Some(""), Some("sq_key")},
     PORT : {None, Some(3000)}]

(* !VALUE for an environment variable: undefined or the empty string *)
EnvMissing(v) == v = None \/ v[1] = ""

(* mutation: the webhook secret is not among the values tested *)
ConfigIncomplete_TwoKeys(env) ==
    EnvMissing(env.STRIPE_API_KEY) \/ EnvMissing(env.SQUARESPACE_API_KEY)

(* !STRIPE_API_KEY || !STRIPE_WEBHOOK_SECRET || !SQUARESPACE_API_KEY *)
ConfigIncomplete(env) ==
    \/ EnvMissing(env.STRIPE_API_KEY)
    \/ EnvMissing(env.STRIPE_WEBHOOK_SECRET)
    \/ EnvMissing(env.SQUARESPACE_API_KEY)

(* PORT = 8080 in the destructuring of process.env *)
ListenPort(env) == IF env.PORT = None THEN DefaultPort ELSE env.PORT[1]

Listening(env) == [env |-> env, status |-> "listening", port |-> ListenPort(env)]

Idle ==
    /\ pc = [r \in Reqs |-> "idle"]
    /\ request = [r \in Reqs |-> None]
    /\ event = [r \in Reqs |-> None]
    /\ paymentIntentId = [r \in Reqs |-> NULL]
    /\ chargeId = [r \in Reqs |-> NULL]
    /\ charge = [r \in Reqs |-> None]
    /\ orderId = [r \in Reqs |-> None]
    /\ order = [r \in Reqs |-> None]
    /\ calls = [r \in Reqs |-> <<>>]
    /\ returns = [r \in Reqs |-> <<>>]
    /\ responses = [r \in Reqs |-> <<>>]
    /\ logs = [r \in Reqs |-> <<>>]

(* the service is up, started with a complete environment and no PORT *)
Init ==
    /\ Idle
    /\ process = Listening([STRIPE_API_KEY |-> Some("sk_live"),
                            STRIPE_WEBHOOK_SECRET |-> Some(STRIPE_WEBHOOK_SECRET),
                            SQUARESPACE_API_KEY |-> Some("sq_key"),
                            PORT |-> None])

(* node has loaded server.js and has not run it yet *)
InitBoot ==
    /\ Idle
    /\ \E env \in Envs : process = [env |-> env, status |-> "starting", port |-> 0]

(* res.status(status).send(...) / res.json(body), after logging `line` *)
Respond(r, status, body, line) ==
    /\ pc' = [pc EXCEPT ![r] = "done"]
    /\ responses' = [responses EXCEPT ![r] = Append(@, [status |-> status, body |-> body])]
    /\ logs' = [logs EXCEPT ![r] = Append(@, line)]

(* mutation: the abort throws instead of returning *)
Abort_Throwing(r, why) ==
    /\ pc' = [pc EXCEPT ![r] = "done"]
    /\ responses' = [responses EXCEPT ![r] = Append(@, [status |-> 200, body |-> ACK_ERROR])]
    /\ logs' = [logs EXCEPT ![r] = Append(@, Line("warn", why, 0))]

(* a silent abort of handleStripeEvent: warn, return, then res.json({received: true}) *)
Abort(r, why) == Respond(r, 200, ACK, Line("warn", why, 0))

(* mutation: the catch block answers 500 so that Stripe retries *)
Caught_Status500(r, status) ==
    /\ pc' = [pc EXCEPT ![r] = "done"]
    /\ responses' = [responses EXCEPT ![r] = Append(@, [status |-> 500, body |-> ACK_ERROR])]
    /\ logs' = [logs EXCEPT ![r] = Append(@, Line("error", "Handler error", status))]

(* mutation: the acknowledgement is also written after the catch block *)
Caught_ThenAcknowledged(r, status) ==
    /\ pc' = [pc EXCEPT ![r] = "done"]
    /\ responses' = [responses EXCEPT ![r] =
            @ \o <<[status |-> 200, body |-> ACK_ERROR], [status |-> 200, body |-> ACK]>>]
    /\ logs' = [logs EXCEPT ![r] = Append(@, Line("error", "Handler error", status))]

(* an exception escaping handleStripeEvent, caught by the route *)
Caught(r, status) == Respond(r, 200, ACK_ERROR, Line("error", "Handler error", status))

(* an outbound call is started and the handler suspends on it *)
Issue(r, call, at) ==
    /\ pc' = [pc EXCEPT ![r] = at]
    /\ calls' = [calls EXCEPT ![r] = Append(@, call)]
    /\ UNCHANGED <<responses, logs>>

Returned(r, how) == returns' = [returns EXCEPT ![r] = Append(@, how)]

(* mutation: the payment-intent id is required before the order is fetched *)
WithCharge_NeedsPaymentIntent(r, ch) ==
    /\ charge' = [charge EXCEPT ![r] = ch]
    /\ IF ch = None
       THEN Abort(r, "No charge found") /\ UNCHANGED <<orderId, calls>>
       ELSE LET oid == OrderIdOf(ch[1].metadata)
            IN  /\ orderId' = [orderId EXCEPT ![r] = oid]
                /\ IF ~Truthy(oid)
                   THEN Abort(r, "No Squarespace order id") /\ UNCHANGED calls
                   ELSE IF paymentIntentId[r] = NULL /\ ch[1].payment_intent = NULL
                   THEN Abort(r, "No PaymentIntent id available") /\ UNCHANGED calls
                   ELSE Issue(r, [op |-> "ssGet", path |-> OrderPath(oid[1]),
                                  url |-> OrderUrl(OrderPath(oid[1]))], "awaitOrder")

(* handleStripeEvent from `if (!charge)` to the await of ssGet *)
WithCharge(r, ch) ==
    /\ charge' = [charge EXCEPT ![r] = ch]
    /\ IF ch = None
       THEN Abort(r, "No charge found") /\ UNCHANGED <<orderId, calls>>
       ELSE LET oid == OrderIdOf(ch[1].metadata)
            IN  /\ orderId' = [orderId EXCEPT ![r] = oid]
                /\ IF ~Truthy(oid)
                   THEN Abort(r, "No Squarespace order id") /\ UNCHANGED calls
                   ELSE Issue(r, [op |-> "ssGet", path |-> OrderPath(oid[1]),
                                  url |-> OrderUrl(OrderPath(oid[1]))], "awaitOrder")

(* mutation: the update is not awaited *)
WithOrder_NoAwait(r, ord) ==
    LET names == NamesOf(ord)
        pid == IF paymentIntentId[r] = NULL THEN charge[r][1].payment_intent
               ELSE paymentIntentId[r]
    IN  /\ order' = [order EXCEPT ![r] = Some(ord)]
        /\ IF names = <<>>
           THEN Abort(r, "no productName entries") /\ UNCHANGED <<paymentIntentId, calls>>
           ELSE /\ paymentIntentId' = [paymentIntentId EXCEPT ![r] = pid]
                /\ IF pid = NULL
                   THEN Abort(r, "No PaymentIntent id available") /\ UNCHANGED calls
                   ELSE /\ calls' = [calls EXCEPT ![r] =
                              Append(@, [op |-> "paymentIntents.update", id |-> pid,
                                         description |-> DescriptionOf(names),
                                         metadata |-> UpdateMetadata(ord, names)])]
                        /\ Respond(r, 200, ACK, Line("log", "Updated PI", 0))

(* mutation: paymentIntentId is declared at module level, shared by all requests *)
WithOrder_SharedId(r, ord) ==
    LET names == NamesOf(ord)
        pid == LET others == {q \in Reqs \ {r} : pc[q] \notin {"idle", "done"}}
                   mine == IF others = {} THEN paymentIntentId[r]
                           ELSE paymentIntentId[CHOOSE q \in others : TRUE]
               IN  IF mine = NULL THEN charge[r][1].payment_intent ELSE mine
    IN  /\ order' = [order EXCEPT ![r] = Some(ord)]
        /\ IF names = <<>>
           THEN Abort(r, "no productName entries") /\ UNCHANGED <<paymentIntentId, calls>>
           ELSE /\ paymentIntentId' = [paymentIntentId EXCEPT ![r] = pid]
                /\ IF pid = NULL
                   THEN Abort(r, "No PaymentIntent id available") /\ UNCHANGED calls
                   ELSE Issue(r, [op |-> "paymentIntents.update", id |-> pid,
                                  description |-> DescriptionOf(names),
                                  metadata |-> UpdateMetadata(ord, names)], "awaitUpdate")

(* mutation: the back-reference of the charge is preferred to the id of the event *)
WithOrder_ChargeFirst(r, ord) ==
    LET names == NamesOf(ord)
        pid == IF charge[r][1].payment_intent # NULL THEN charge[r][1].payment_intent
               ELSE paymentIntentId[r]
    IN  /\ order' = [order EXCEPT ![r] = Some(ord)]
        /\ IF names = <<>>
           THEN Abort(r, "no productName entries") /\ UNCHANGED <<paymentIntentId, calls>>
           ELSE /\ paymentIntentId' = [paymentIntentId EXCEPT ![r] = pid]
                /\ IF pid = NULL
                   THEN Abort(r, "No PaymentIntent id available") /\ UNCHANGED calls
                   ELSE Issue(r, [op |-> "paymentIntents.update", id |-> pid,
                                  description |-> DescriptionOf(names),
                                  metadata |-> UpdateMetadata(ord, names)], "awaitUpdate")

(* handleStripeEvent from the order returned by ssGet to the await of the update *)
WithOrder(r, ord) ==
    LET names == NamesOf(ord)
        pid == IF paymentIntentId[r] = NULL THEN charge[r][1].payment_intent
               ELSE paymentIntentId[r]
    IN  /\ order' = [order EXCEPT ![r] = Some(ord)]
        /\ IF names = <<>>
           THEN Abort(r, "no productName entries") /\ UNCHANGED <<paymentIntentId, calls>>
           ELSE /\ paymentIntentId' = [paymentIntentId EXCEPT ![r] = pid]
                /\ IF pid = NULL
                   THEN Abort(r, "No PaymentIntent id available") /\ UNCHANGED calls
                   ELSE Issue(r, [op |-> "paymentIntents.update", id |-> pid,
                                  description |-> DescriptionOf(names),
                                  metadata |-> UpdateMetadata(ord, names)], "awaitUpdate")

----------------------------------------------------------------------------
(* Actions *)

(* node runs server.js from the top: the environment test, then app.listen *)
Start ==
    /\ process.status = "starting"
    /\ process' = IF ConfigIncomplete(process.env)
                  THEN [process EXCEPT !.status = "exited"]
                  ELSE Listening(process.env)
    /\ UNCHANGED <<pc, request, event, locals, calls, returns, responses, logs>>

(* POST /webhooks/stripe arrives with one of `deliveries`: the route up to
   its first await *)
ReceiveFrom(r, deliveries) ==
    /\ process.status = "listening"
    /\ pc[r] = "idle"
    /\ \A q \in 1..(r - 1) : pc[q] # "idle"
    /\ UNCHANGED process
    /\ \E d \in deliveries :
        LET ev == d.body
            sig == d.sig
        IN
        /\ request' = [request EXCEPT ![r] = Some([body |-> ev, sig |-> sig])]
        /\ IF ~constructEvent(ev, sig, STRIPE_WEBHOOK_SECRET)
           THEN /\ Respond(r, 400, [text |-> "Webhook Error"],
                           Line("error", "Webhook signature verification failed", 0))
                /\ UNCHANGED <<event, locals, calls, returns>>
           ELSE /\ event' = [event EXCEPT ![r] = Some(ev)]
                /\ UNCHANGED <<returns, charge, orderId, order>>
                /\ IF ~IsProcessed(ev.type)
                   THEN /\ pc' = [pc EXCEPT ![r] = "done"]
                        /\ responses' = [responses EXCEPT ![r] = Append(@, [status |-> 200, body |-> ACK])]
                        /\ UNCHANGED <<paymentIntentId, chargeId, calls, logs>>
                   ELSE LET pid == EventPaymentIntentId(ev)
                            cid == EventChargeId(ev)
                        IN  /\ paymentIntentId' = [paymentIntentId EXCEPT ![r] = pid]
                            /\ chargeId' = [chargeId EXCEPT ![r] = cid]
                            /\ IF cid # NULL
                               THEN Issue(r, [op |-> "charges.retrieve", id |-> cid], "awaitCharge")
                               ELSE IF pid # NULL
                               THEN Issue(r, [op |-> "paymentIntents.retrieve", id |-> pid,
                                              expand |-> <<"charges.data">>], "awaitPI")
                               ELSE Abort(r, "No charge found") /\ UNCHANGED calls

(* stripe.charges.retrieve settles with an exception or one of `charges` *)
ChargeRetrievedFrom(r, charges) ==
    /\ pc[r] = "awaitCharge"
    /\ UNCHANGED <<request, event, paymentIntentId, chargeId, order, process>>
    /\ \/ /\ Returned(r, [outcome |-> "raise"])
          /\ Caught(r, 0)
          /\ UNCHANGED <<charge, orderId, calls>>
       \/ \E ch \in charges :
          /\ Returned(r, [outcome |-> "ok"])
          /\ WithCharge(r, Some(ch))

(* stripe.paymentIntents.retrieve settles with an exception or a payment
   intent whose charges are one of `lists` *)
PaymentIntentRetrievedFrom(r, lists) ==
    /\ pc[r] = "awaitPI"
    /\ UNCHANGED <<request, event, paymentIntentId, chargeId, order, process>>
    /\ \/ /\ Returned(r, [outcome |-> "raise"])
          /\ Caught(r, 0)
          /\ UNCHANGED <<charge, orderId, calls>>
       \/ \E chs \in lists :
          /\ Returned(r, [outcome |-> "ok", charges |-> chs])
          /\ WithCharge(r, FirstCharge(chs))

(* the fetch of ssGet settles: rejected, a non-2xx response (resp.ok false,
   the body text is read and an Error thrown), or a 2xx response with an order *)
OrderFetchedFrom(r, statuses, orders) ==
    /\ pc[r] = "awaitOrder"
    /\ UNCHANGED <<request, event, chargeId, charge, orderId, process>>
    /\ \/ /\ Returned(r, [outcome |-> "raise"])
          /\ Caught(r, 0)
          /\ UNCHANGED <<paymentIntentId, order, calls>>
       \/ \E st \in statuses :
          /\ Returned(r, [outcome |-> "non2xx", status |-> st])
          /\ Caught(r, st)
          /\ UNCHANGED <<paymentIntentId, order, calls>>
       \/ \E ord \in orders :
          /\ Returned(r, [outcome |-> "ok", status |-> 200])
          /\ WithOrder(r, ord)

(* one delivery at a time, with every value the outside world can send *)
Receive(r) ==
    /\ \A q \in Reqs \ {r} : pc[q] = "idle"
    /\ ReceiveFrom(r, Deliveries)

ChargeRetrieved(r) == ChargeRetrievedFrom(r, Charges(chargeId[r]))

PaymentIntentRetrieved(r) == PaymentIntentRetrievedFrom(r, ChargeLists)

(* mutation: ssGet does not test resp.ok and parses whatever body came back *)
OrderFetched_NoOkCheck(r) ==
    /\ pc[r] = "awaitOrder"
    /\ UNCHANGED <<request, event, chargeId, charge, orderId, process>>
    /\ \/ /\ Returned(r, [outcome |-> "raise"])
          /\ Caught(r, 0)
          /\ UNCHANGED <<paymentIntentId, order, calls>>
       \/ \E st \in NonOkStatuses : \E ord \in Orders :
          /\ Returned(r, [outcome |-> "non2xx", status |-> st])
          /\ WithOrder(r, ord)
       \/ \E ord \in Orders :
          /\ Returned(r, [outcome |-> "ok", status |-> 200])
          /\ WithOrder(r, ord)

OrderFetched(r) == OrderFetchedFrom(r, NonOkStatuses, Orders)

(* mutation: a failed update is attempted a second time *)
Updated_RetryOnce(r) ==
    /\ pc[r] = "awaitUpdate"
    /\ UNCHANGED <<request, event, locals, process>>
    /\ \/ /\ Returned(r, [outcome |-> "raise"])
          /\ IF Len(calls[r]) < 4
             THEN /\ calls' = [calls EXCEPT ![r] = Append(@, @[Len(@)])]
                  /\ UNCHANGED <<pc, responses, logs>>
             ELSE Caught(r, 0) /\ UNCHANGED calls
       \/ /\ Returned(r, [outcome |-> "ok"])
          /\ Respond(r, 200, ACK, Line("log", "Updated PI", 0))
          /\ UNCHANGED calls

(* stripe.paymentIntents.update settles *)
Updated(r) ==
    /\ pc[r] = "awaitUpdate"
    /\ UNCHANGED <<request, event, locals, calls, process>>
    /\ \/ /\ Returned(r, [outcome |-> "raise"])
          /\ Caught(r, 0)
       \/ /\ Returned(r, [outcome |-> "ok"])
          /\ Respond(r, 200, ACK, Line("log", "Updated PI", 0))

(* the response has been sent and the request's closure is dropped *)
Close(r) ==
    /\ pc[r] = "done"
    /\ UNCHANGED process
    /\ pc' = [pc EXCEPT ![r] = "idle"]
    /\ request' = [request EXCEPT ![r] = None]
    /\ event' = [event EXCEPT ![r] = None]
    /\ paymentIntentId' = [paymentIntentId EXCEPT ![r] = NULL]
    /\ chargeId' = [chargeId EXCEPT ![r] = NULL]
    /\ charge' = [charge EXCEPT ![r] = None]
    /\ orderId' = [orderId EXCEPT ![r] = None]
    /\ order' = [order EXCEPT ![r] = None]
    /\ calls' = [calls EXCEPT ![r] = <<>>]
    /\ returns' = [returns EXCEPT ![r] = <<>>]
    /\ responses' = [responses EXCEPT ![r] = <<>>]
    /\ logs' = [logs EXCEPT ![r] = <<>>]

Next ==
    \E r \in Reqs :
        \/ Receive(r)
        \/ ChargeRetrieved(r)
        \/ PaymentIntentRetrieved(r)
        \/ OrderFetched(r)
        \/ Updated(r)
        \/ Close(r)

Spec == Init /\ [][Next]_vars

----------------------------------------------------------------------------
(* The service from process start, with deliveries handled concurrently: a
   request may arrive while others are suspended at an await.  The values
   the outside world sends are a few representatives of each kind. *)

SmallDeliveries ==
    LET piEvent == [type |-> PI_SUCCEEDED,
                    object |-> [id |-> "pi_1", latest_charge |-> NULL, payment_intent |-> NULL]]
        chEvent == [type |-> CHARGE_SUCCEEDED,
                    object |-> [id |-> "ch_1", latest_charge |-> NULL, payment_intent |-> NULL]]
        other   == [type |-> <<"charge", "refunded">>,
                    object |-> [id |-> "ch_1", latest_charge |-> NULL, payment_intent |-> NULL]]
        Signed(ev) == Some([key |-> STRIPE_WEBHOOK_SECRET, payload |-> ev])
    IN  {[body |-> piEvent, sig |-> Signed(piEvent)],
         [body |-> chEvent, sig |-> Signed(chEvent)],
         [body |-> other, sig |-> Signed(other)],
         [body |-> piEvent, sig |-> None]}

SmallCharges ==
    {[id |-> "ch_1", metadata |-> Some([orderid |-> <<"o", "2">>]), payment_intent |-> "pi_2"],
     [id |-> "ch_1", metadata |-> Some([orderid |-> <<"o", "2">>]), payment_intent |-> NULL]}

SmallChargeLists == {None} \cup {Some(<<ch>>) : ch \in SmallCharges}

SmallOrders ==
    {[id |-> "ord_9", orderNumber |-> None, lineItems |-> Some(<<[productName |-> Some(<<"A">>)]>>)],
     [id |-> "ord_9", orderNumber |-> None, lineItems |-> None]}

SmallStatuses == {404}

ReceiveAny(r) == ReceiveFrom(r, SmallDeliveries)

ChargeRetrievedAny(r) == ChargeRetrievedFrom(r, SmallCharges)

PaymentIntentRetrievedAny(r) == PaymentIntentRetrievedFrom(r, SmallChargeLists)

OrderFetchedAny(r) == OrderFetchedFrom(r, SmallStatuses, SmallOrders)

NextService ==
    \/ Start
    \/ \E r \in Reqs :
        \/ ReceiveAny(r)
        \/ ChargeRetrievedAny(r)
        \/ PaymentIntentRetrievedAny(r)
        \/ OrderFetchedAny(r)
        \/ Updated(r)
        \/ Close(r)

ServiceSpec == InitBoot /\ [][NextService]_vars

(* every outbound call eventually returns or raises *)
CallsSettle ==
    \A r \in Reqs :
        /\ WF_vars(ChargeRetrievedAny(r))
        /\ WF_vars(PaymentIntentRetrievedAny(r))
        /\ WF_vars(OrderFetchedAny(r))
        /\ WF_vars(Updated(r))

FairServiceSpec == ServiceSpec /\ CallsSettle

----------------------------------------------------------------------------
(* Vocabulary of the properties *)

Indices(q) == 1..Len(q)

CallsOf(r, op) == {i \in Indices(calls[r]) : calls[r][i].op = op}

Issued(r, op) == CallsOf(r, op) # {}

Received(r) == request[r] # None

(* the header is a signature over the received body under the configured secret *)
SignatureValid(r) ==
    /\ request[r][1].sig # None
    /\ request[r][1].sig[1].key = STRIPE_WEBHOOK_SECRET
    /\ request[r][1].sig[1].payload = request[r][1].body

Answered(r) == pc[r] = "done"

AnsweredWith(r, status, body) == responses[r] = <<[status |-> status, body |-> body]>>

SomeCallRaised(r) == \E i \in Indices(returns[r]) : returns[r][i].outcome # "ok"

OrderGetNon2xx(r) == \E i \in Indices(returns[r]) : returns[r][i].outcome = "non2xx"

----------------------------------------------------------------------------
(* C1: a request whose signature does not validate against the configured
   secret is answered 400 and causes no outbound call, whatever its event
   type and body. *)
C1_BadSignatureRejected ==
    \A r \in Reqs :
        (Received(r) /\ ~SignatureValid(r)) =>
            /\ calls[r] = <<>>
            /\ Len(responses[r]) = 1
            /\ responses[r][1].status = 400
            /\ event[r] = None

C1_Witness ==
    \E r \in Reqs :
        /\ Received(r) /\ ~SignatureValid(r)
        /\ request[r][1].sig # None
        /\ request[r][1].sig[1].key = STRIPE_WEBHOOK_SECRET
        /\ request[r][1].body.type = PI_SUCCEEDED
        /\ Answered(r)
        /\ responses[r][1].status = 400

(* C2: a signature-valid event whose type is neither payment_intent.succeeded
   nor charge.succeeded (other payment_intent.* types included) is answered
   200 {received: true} and causes no outbound call. *)
C2_IgnoredTypeAcknowledged ==
    \A r \in Reqs :
        (Received(r) /\ SignatureValid(r)
            /\ request[r][1].body.type \notin {PI_SUCCEEDED, CHARGE_SUCCEEDED}) =>
            /\ calls[r] = <<>>
            /\ AnsweredWith(r, 200, ACK)

C2_Witness ==
    \E r \in Reqs :
        /\ Received(r) /\ SignatureValid(r)
        /\ request[r][1].body.type = <<"payment_intent", "created">>
        /\ AnsweredWith(r, 200, ACK)

(* C3: every response to a signature-valid request has status 200, whatever
   the event type, abort or exception; a non-200 status is produced only
   for a request whose signature does not validate. *)
C3_Always200WhenSigned ==
    \A r \in Reqs : \A i \in Indices(responses[r]) :
        (responses[r][i].status = 200) <=> SignatureValid(r)

C3_Witness ==
    \E r \in Reqs :
        /\ Received(r) /\ SignatureValid(r)
        /\ Answered(r)
        /\ SomeCallRaised(r)
        /\ returns[r][Len(returns[r])].outcome = "raise"
        /\ Issued(r, "paymentIntents.update")
        /\ responses[r][1].status = 200

(* C4: when the order lookup returns a non-2xx status the request is
   answered 200 with error: true and no payment-intent update is issued. *)
C4_Non2xxOrderLookup ==
    \A r \in Reqs :
        OrderGetNon2xx(r) =>
            /\ AnsweredWith(r, 200, ACK_ERROR)
            /\ ~Issued(r, "paymentIntents.update")

C4_Witness ==
    \E r \in Reqs :
        /\ OrderGetNon2xx(r)
        /\ returns[r][Len(returns[r])].status = 404
        /\ Issued(r, "ssGet")
        /\ AnsweredWith(r, 200, ACK_ERROR)

(* C5: the response to a signature-valid request is {received: true,
   error: true} exactly when some outbound step raised; on successful
   completion and on every silent abort it is exactly {received: true}. *)
C5_ErrorFlagIffRaised ==
    \A r \in Reqs :
        (Received(r) /\ SignatureValid(r) /\ Answered(r)) =>
            /\ SomeCallRaised(r) => AnsweredWith(r, 200, ACK_ERROR)
            /\ ~SomeCallRaised(r) => AnsweredWith(r, 200, ACK)
            /\ (\E i \in Indices(logs[r]) : logs[r][i].level = "warn") => AnsweredWith(r, 200, ACK)

C5_Witness ==
    \E r \in Reqs :
        /\ Received(r) /\ SignatureValid(r) /\ Answered(r)
        /\ logs[r] = <<Line("warn", "No PaymentIntent id available", 0)>>
        /\ Issued(r, "ssGet")
        /\ AnsweredWith(r, 200, ACK)

(* C6: when the resolved charge's metadata holds none of metadataid,
   orderid and squarespace_order_id, no order lookup and no payment-intent
   update is issued and the request is answered 200 without the error flag. *)
HasNoOrderIdKey(ch) ==
    ch.metadata = None \/ DOMAIN ch.metadata[1] \cap OrderIdKeys = {}

C6_NoOrderIdKeyAborts ==
    \A r \in Reqs :
        (charge[r] # None /\ HasNoOrderIdKey(charge[r][1])) =>
            /\ ~Issued(r, "ssGet")
            /\ ~Issued(r, "paymentIntents.update")
            /\ AnsweredWith(r, 200, ACK)

C6_Witness ==
    \E r \in Reqs :
        /\ charge[r] # None
        /\ charge[r][1].metadata # None
        /\ DOMAIN charge[r][1].metadata[1] = {"note"}
        /\ Issued(r, "charges.retrieve")
        /\ AnsweredWith(r, 200, ACK)

(* C7: for every combination of presence and absence of the three candidate
   keys, the order id used for the order lookup is the value of the first
   key present in the order metadataid, orderid, squarespace_order_id. *)
Precedence == <<"metadataid", "orderid", "squarespace_order_id">>

FirstPresentKey(md) ==
    Precedence[CHOOSE i \in 1..3 :
                  /\ Precedence[i] \in DOMAIN md
                  /\ \A j \in 1..(i - 1) : Precedence[j] \notin DOMAIN md]

C7_OrderIdPrecedence ==
    \A r \in Reqs :
        (charge[r] # None /\ ~HasNoOrderIdKey(charge[r][1])) =>
            LET md == charge[r][1].metadata[1]
                id == md[FirstPresentKey(md)]
            IN  /\ orderId[r] = Some(id)
                /\ Cardinality(CallsOf(r, "ssGet")) = 1
                /\ \A i \in CallsOf(r, "ssGet") :
                      /\ calls[r][i].path = <<"/">> \o encodeURIComponent(id)
                      /\ calls[r][i].url = <<SS_BASE>> \o calls[r][i].path

C7_Witness ==
    \E r \in Reqs :
        /\ charge[r] # None
        /\ charge[r][1].metadata # None
        /\ DOMAIN charge[r][1].metadata[1] = {"note", "orderid", "squarespace_order_id"}
        /\ Issued(r, "ssGet")
        /\ orderId[r] = Some(<<"o", "2">>)

(* C8: the description written to the payment intent is the reference
   computation over the order's line items in order: product name (absent
   counts as empty), trimmed, empties dropped, survivors joined with ", ",
   first 500 characters kept; items [A, " ", B] give "A, B". *)
RECURSIVE FirstSolid(_, _)
FirstSolid(s, i) == IF i > Len(s) \/ ~IsWs(s[i]) THEN i ELSE FirstSolid(s, i + 1)

RECURSIVE LastSolid(_, _)
LastSolid(s, i) == IF i = 0 \/ ~IsWs(s[i]) THEN i ELSE LastSolid(s, i - 1)

RefTrim(s) == SubSeq(s, FirstSolid(s, 1), LastSolid(s, Len(s)))

RECURSIVE RefAccumulate(_, _)
RefAccumulate(items, acc) ==
    IF items = <<>> THEN acc
    ELSE LET raw == IF Head(items).productName = None THEN <<>> ELSE Head(items).productName[1]
             name == RefTrim(raw)
         IN  RefAccumulate(Tail(items),
                           IF name = <<>> THEN acc
                           ELSE IF acc = <<>> THEN name
                           ELSE acc \o <<",", " ">> \o name)

RefDescription(ord) ==
    LET full == RefAccumulate(IF ord.lineItems = None THEN <<>> ELSE ord.lineItems[1], <<>>)
    IN  IF Len(full) <= 500 THEN full ELSE SubSeq(full, 1, 500)

Item(name) == [productName |-> Some(name)]

C8_DescriptionIsReference ==
    \A r \in Reqs : \A i \in CallsOf(r, "paymentIntents.update") :
        /\ order[r] # None
        /\ calls[r][i].description = RefDescription(order[r][1])
        /\ order[r][1].lineItems = Some(<<Item(<<"A">>), Item(<<" ">>), Item(<<"B">>)>>)
              => calls[r][i].description = <<"A", ",", " ", "B">>

C8_Witness ==
    \E r \in Reqs : \E i \in CallsOf(r, "paymentIntents.update") :
        /\ order[r][1].lineItems = Some(<<Item(<<"A">>), Item(<<" ">>), Item(<<"B">>)>>)
        /\ calls[r][i].description = <<"A", ",", " ", "B">>
        /\ calls[r][i].metadata.product_count = <<"2">>

(* C9: every payment-intent update carries a description of at most 500
   characters; an order whose joined product names exceed 500 characters
   still leads to an update, with the 500-character prefix, and to a
   response without the error flag, never to an exception. *)
PaymentIntentKnown(r) ==
    \/ EventPaymentIntentId(event[r][1]) # NULL
    \/ charge[r][1].payment_intent # NULL

C9_DescriptionAtMost500 ==
    \A r \in Reqs :
        /\ \A i \in CallsOf(r, "paymentIntents.update") : Len(calls[r][i].description) <= 500
        /\ (order[r] # None /\ PaymentIntentKnown(r)
               /\ Len(RefAccumulate(IF order[r][1].lineItems = None THEN <<>>
                                    ELSE order[r][1].lineItems[1], <<>>)) > 500) =>
              /\ \E i \in CallsOf(r, "paymentIntents.update") :
                    /\ i = Len(calls[r])
                    /\ Len(calls[r][i].description) = 500
              /\ (Answered(r) /\ returns[r][Len(returns[r])].outcome = "ok")
                    => AnsweredWith(r, 200, ACK)

C9_Witness ==
    \E r \in Reqs : \E i \in CallsOf(r, "paymentIntents.update") :
        /\ order[r][1].lineItems = Some(<<Item(LongName), Item(<<"A">>), Item(LongName)>>)
        /\ Len(calls[r][i].description) = 500
        /\ calls[r][i].description[LongLen + 3] = "A"
        /\ AnsweredWith(r, 200, ACK)

(* C10: if the fetched order has no line item whose trimmed product name is
   non-empty, no payment-intent update is issued and the response is 200
   without the error flag; no update ever carries an empty description. *)
HasNoProductName(ord) ==
    \/ ord.lineItems = None
    \/ \A i \in Indices(ord.lineItems[1]) :
          LET pn == ord.lineItems[1][i].productName
          IN  pn = None \/ \A j \in Indices(pn[1]) : IsWs(pn[1][j])

C10_NoNamesNoUpdate ==
    \A r \in Reqs :
        /\ (order[r] # None /\ HasNoProductName(order[r][1])) =>
              /\ ~Issued(r, "paymentIntents.update")
              /\ AnsweredWith(r, 200, ACK)
        /\ \A i \in CallsOf(r, "paymentIntents.update") : calls[r][i].description # <<>>

C10_Witness ==
    \E r \in Reqs :
        /\ order[r] # None
        /\ order[r][1].lineItems = Some(<<[productName |-> None], Item(<<" ">>)>>)
        /\ AnsweredWith(r, 200, ACK)
        /\ logs[r] = <<Line("warn", "no productName entries", 0)>>

(* C11: charge resolution issues exactly one retrieval: with a known charge
   id (the charge event's own id, or the payment intent's latest charge) the
   charge is retrieved by id and the payment intent is not; with only a
   payment-intent id the payment intent is retrieved with its charges
   expanded and its first charge is taken; if that yields no charge,
   processing stops with no order lookup, no update and a 200 without the
   error flag. *)
Retrievals(r) == CallsOf(r, "charges.retrieve") \cup CallsOf(r, "paymentIntents.retrieve")

KnownChargeId(ev) ==
    IF ev.type = CHARGE_SUCCEEDED THEN ev.object.id ELSE ev.object.latest_charge

KnownPaymentIntentId(ev) ==
    IF ev.type = CHARGE_SUCCEEDED THEN ev.object.payment_intent ELSE ev.object.id

Processed(r) ==
    /\ Received(r) /\ SignatureValid(r)
    /\ request[r][1].body.type \in {PI_SUCCEEDED, CHARGE_SUCCEEDED}

C11_ChargeResolution ==
    \A r \in Reqs :
        Processed(r) =>
            LET ev == request[r][1].body
                cid == KnownChargeId(ev)
                pid == KnownPaymentIntentId(ev)
            IN  /\ Cardinality(Retrievals(r)) = 1
                /\ cid # NULL =>
                      /\ calls[r][1] = [op |-> "charges.retrieve", id |-> cid]
                      /\ ~Issued(r, "paymentIntents.retrieve")
                /\ (cid = NULL /\ pid # NULL) =>
                      /\ calls[r][1] = [op |-> "paymentIntents.retrieve", id |-> pid,
                                        expand |-> <<"charges.data">>]
                      /\ ~Issued(r, "charges.retrieve")
                      /\ (returns[r] # <<>> /\ returns[r][1].outcome = "ok") =>
                            LET chs == returns[r][1].charges
                            IN  IF chs # None /\ Len(chs[1]) > 0
                                THEN charge[r] = <<Head(chs[1])>>
                                ELSE charge[r] = None
                /\ (returns[r] # <<>> /\ returns[r][1].outcome = "ok" /\ charge[r] = None) =>
                      /\ ~Issued(r, "ssGet")
                      /\ ~Issued(r, "paymentIntents.update")
                      /\ AnsweredWith(r, 200, ACK)

C11_Witness ==
    \E r \in Reqs :
        /\ Processed(r)
        /\ Issued(r, "paymentIntents.retrieve")
        /\ returns[r] # <<>> /\ returns[r][1].outcome = "ok"
        /\ returns[r][1].charges # None
        /\ Len(returns[r][1].charges[1]) = 2
        /\ charge[r] # None
        /\ charge[r][1].id = "ch_1"
        /\ Issued(r, "ssGet")

(* C12: within one request the outbound steps occur strictly in the order
   verify, resolve charge, fetch order, update: a retrieve only after the
   signature verified, an order GET only after a charge was resolved, an
   update only after a 2xx order response of the same request, and never two
   outbound calls of one request in flight at once. *)
InFlight(r) == Len(calls[r]) - Len(returns[r])

C12_SequentialChain ==
    \A r \in Reqs :
        /\ InFlight(r) \in {0, 1}
        /\ Answered(r) => InFlight(r) = 0
        /\ calls[r] # <<>> => (Received(r) /\ SignatureValid(r) /\ event[r] # None)
        /\ Retrievals(r) \subseteq {1}
        /\ \A i \in CallsOf(r, "ssGet") :
              /\ i = 2
              /\ Retrievals(r) = {1}
              /\ returns[r][1].outcome = "ok"
              /\ charge[r] # None
        /\ \A i \in CallsOf(r, "paymentIntents.update") :
              /\ i = 3
              /\ CallsOf(r, "ssGet") = {2}
              /\ Len(returns[r]) >= 2
              /\ returns[r][2] = [outcome |-> "ok", status |-> 200]
              /\ order[r] # None

C12_Witness ==
    \E r \in Reqs :
        /\ pc[r] = "awaitUpdate"
        /\ Len(calls[r]) = 3
        /\ Len(returns[r]) = 2
        /\ calls[r][1].op = "paymentIntents.retrieve"
        /\ calls[r][2].op = "ssGet"
        /\ calls[r][3].op = "paymentIntents.update"

(* C13: no operation is retried: within one request each outbound operation
   is issued at most once, also when it fails; a failing call, the
   payment-intent update included, ends the request with a 200
   acknowledgement and no further call. *)
Operations == {"charges.retrieve", "paymentIntents.retrieve", "ssGet", "paymentIntents.update"}

C13_NoRetry ==
    \A r \in Reqs :
        /\ \A op \in Operations : Cardinality(CallsOf(r, op)) <= 1
        /\ \A i \in Indices(calls[r]) : calls[r][i].op \in Operations
        /\ \A i \in Indices(returns[r]) :
              returns[r][i].outcome # "ok" =>
                  /\ i = Len(calls[r])
                  /\ Answered(r)
                  /\ responses[r] = <<[status |-> 200, body |-> ACK_ERROR]>>

C13_Witness ==
    \E r \in Reqs :
        /\ Answered(r)
        /\ Len(calls[r]) = 3
        /\ calls[r][3].op = "paymentIntents.update"
        /\ returns[r][3].outcome = "raise"
        /\ responses[r] = <<[status |-> 200, body |-> ACK_ERROR]>>

(* C14: if any of the three required configuration values is missing or
   empty at startup the process terminates before it listens, so no state in
   which the service accepts requests is reachable; the listen port alone
   may be absent and then defaults to 8080. *)
Configured(v) == v # None /\ v # <<"">>

C14_NoListenWithoutConfig ==
    /\ process.status = "listening" =>
          /\ Configured(process.env.STRIPE_API_KEY)
          /\ Configured(process.env.STRIPE_WEBHOOK_SECRET)
          /\ Configured(process.env.SQUARESPACE_API_KEY)
          /\ process.env.PORT = None => process.port = 8080
          /\ process.env.PORT # None => process.port = process.env.PORT[1]
    /\ process.status # "listening" =>
          \A r \in Reqs : pc[r] = "idle" /\ request[r] = None /\ responses[r] = <<>>
    /\ (process.status = "exited") =>
          ~(/\ Configured(process.env.STRIPE_API_KEY)
            /\ Configured(process.env.STRIPE_WEBHOOK_SECRET)
            /\ Configured(process.env.SQUARESPACE_API_KEY))

C14_Witness ==
    /\ process.status = "exited"
    /\ process.env.STRIPE_API_KEY = Some("sk_live")
    /\ process.env.STRIPE_WEBHOOK_SECRET = Some("")
    /\ process.env.SQUARESPACE_API_KEY = Some("sq_key")
    /\ process.env.PORT = None

(* C15: concurrent deliveries are independent: under any interleaving of
   the awaited steps of several requests in flight, the outbound calls of
   each request, their arguments and its response are what they are when
   the request is handled alone, a function of that request's own event and
   of the answers to its own calls. *)
SoloFirstCall(ev) ==
    IF KnownChargeId(ev) # NULL
    THEN [op |-> "charges.retrieve", id |-> KnownChargeId(ev)]
    ELSE [op |-> "paymentIntents.retrieve", id |-> KnownPaymentIntentId(ev),
          expand |-> <<"charges.data">>]

SoloOrderCall(ch) ==
    LET id == ch.metadata[1][FirstPresentKey(ch.metadata[1])]
    IN  [op |-> "ssGet", path |-> <<"/">> \o encodeURIComponent(id),
         url |-> <<SS_BASE, "/">> \o encodeURIComponent(id)]

SoloUpdateId(ev, ch) ==
    IF KnownPaymentIntentId(ev) # NULL THEN KnownPaymentIntentId(ev) ELSE ch.payment_intent

SoloResponse(r) ==
    IF ~SignatureValid(r) THEN 400
    ELSE IF SomeCallRaised(r) THEN ACK_ERROR
    ELSE ACK

C15_RequestsIndependent ==
    \A r \in Reqs :
        /\ ~Processed(r) => calls[r] = <<>>
        /\ Processed(r) =>
              /\ Len(calls[r]) \in 1..3
              /\ calls[r][1] = SoloFirstCall(request[r][1].body)
              /\ Len(calls[r]) >= 2 => calls[r][2] = SoloOrderCall(charge[r][1])
              /\ Len(calls[r]) = 3 =>
                    /\ calls[r][3].op = "paymentIntents.update"
                    /\ calls[r][3].id = SoloUpdateId(request[r][1].body, charge[r][1])
                    /\ calls[r][3].description = RefDescription(order[r][1])
                    /\ calls[r][3].metadata.squarespace_order_id = order[r][1].id
        /\ Answered(r) =>
              /\ Len(responses[r]) = 1
              /\ IF ~SignatureValid(r) THEN responses[r][1].status = 400
                 ELSE responses[r][1] = [status |-> 200, body |-> SoloResponse(r)]
        /\ ~Answered(r) => responses[r] = <<>>

C15_Witness ==
    \E r, q \in Reqs :
        /\ r # q
        /\ pc[r] = "awaitUpdate" /\ pc[q] = "awaitUpdate"
        /\ calls[r][3].id = "pi_1"
        /\ calls[q][3].id = "pi_2"

(* C16: the payment intent updated is the id captured from the event when
   there is one (the payment intent's own id, or the charge event's parent
   reference); only when the event supplied none is the retrieved charge's
   payment_intent used; when both are absent no update is issued and the
   response is 200 without the error flag. *)
HasProductName(ord) == ~HasNoProductName(ord)

C16_UpdatedPaymentIntent ==
    \A r \in Reqs :
        (Processed(r) /\ order[r] # None /\ HasProductName(order[r][1])) =>
            LET fromEvent == KnownPaymentIntentId(request[r][1].body)
                fromCharge == charge[r][1].payment_intent
            IN  /\ fromEvent # NULL =>
                      /\ Cardinality(CallsOf(r, "paymentIntents.update")) = 1
                      /\ calls[r][3].id = fromEvent
                /\ (fromEvent = NULL /\ fromCharge # NULL) =>
                      /\ Cardinality(CallsOf(r, "paymentIntents.update")) = 1
                      /\ calls[r][3].id = fromCharge
                /\ (fromEvent = NULL /\ fromCharge = NULL) =>
                      /\ ~Issued(r, "paymentIntents.update")
                      /\ AnsweredWith(r, 200, ACK)

C16_Witness ==
    \E r \in Reqs :
        /\ Processed(r)
        /\ request[r][1].body.type = CHARGE_SUCCEEDED
        /\ request[r][1].body.object.payment_intent = "pi_1"
        /\ charge[r] # None
        /\ charge[r][1].payment_intent = "pi_2"
        /\ Issued(r, "paymentIntents.update")
        /\ calls[r][3].id = "pi_1"

(* C17: every update writes a metadata mapping with exactly the keys
   squarespace_order_id, squarespace_order_number and product_count, all
   text: the id of the order looked up, the order's number as a string
   (empty when the order has none) and the decimal count of the product
   names that survived filtering, counted before the description is cut to
   500 characters. *)
SurvivorCount(ord) ==
    IF ord.lineItems = None THEN 0
    ELSE Cardinality({i \in Indices(ord.lineItems[1]) :
            LET pn == ord.lineItems[1][i].productName
            IN  pn # None /\ \E j \in Indices(pn[1]) : ~IsWs(pn[1][j])})

Decimals == <<<<"0">>, <<"1">>, <<"2">>, <<"3">>, <<"4">>, <<"5">>, <<"6">>, <<"7">>, <<"8">>, <<"9">>>>

C17_UpdateMetadata ==
    \A r \in Reqs : \A i \in CallsOf(r, "paymentIntents.update") :
        LET md == calls[r][i].metadata
            ord == order[r][1]
        IN  /\ DOMAIN md = {"squarespace_order_id", "squarespace_order_number", "product_count"}
            /\ md.squarespace_order_id = ord.id
            /\ md.squarespace_order_number = (IF ord.orderNumber = None THEN <<>> ELSE ord.orderNumber[1])
            /\ md.product_count = Decimals[SurvivorCount(ord) + 1]

C17_Witness ==
    \E r \in Reqs : \E i \in CallsOf(r, "paymentIntents.update") :
        /\ order[r][1].lineItems = Some(<<Item(LongName), Item(LongName), Item(<<"B">>)>>)
        /\ order[r][1].orderNumber = Some(<<"4", "2">>)
        /\ Len(calls[r][i].description) = 500
        /\ calls[r][i].metadata.product_count = <<"3">>
        /\ calls[r][i].metadata.squarespace_order_number = <<"4", "2">>

(* C18: the test that a payment-intent id is available comes only after the
   order lookup: a charge event whose object and whose retrieved charge both
   lack a payment-intent reference, but whose charge metadata carries an
   order id, still causes exactly one order GET and then no update. *)
C18_LookupBeforeIdCheck ==
    \A r \in Reqs :
        (/\ Processed(r)
         /\ request[r][1].body.type = CHARGE_SUCCEEDED
         /\ request[r][1].body.object.payment_intent = NULL
         /\ charge[r] # None
         /\ charge[r][1].payment_intent = NULL
         /\ ~HasNoOrderIdKey(charge[r][1])) =>
            /\ Cardinality(CallsOf(r, "ssGet")) = 1
            /\ Len(calls[r]) = 2
            /\ ~Issued(r, "paymentIntents.update")
            /\ (order[r] # None /\ HasProductName(order[r][1])) =>
                  /\ logs[r] = <<Line("warn", "No PaymentIntent id available", 0)>>
                  /\ AnsweredWith(r, 200, ACK)

C18_Witness ==
    \E r \in Reqs :
        /\ Processed(r)
        /\ request[r][1].body.type = CHARGE_SUCCEEDED
        /\ request[r][1].body.object.payment_intent = NULL
        /\ charge[r] # None /\ charge[r][1].payment_intent = NULL
        /\ order[r] # None /\ HasProductName(order[r][1])
        /\ calls[r][2].op = "ssGet"
        /\ returns[r][2].outcome = "ok"
        /\ Answered(r)

(* C19: every accepted POST /webhooks/stripe request receives exactly one
   response: never two (the success acknowledgement, the error
   acknowledgement and the 400 exclude one another) and, provided every
   outbound call it issues eventually returns or raises, eventually one. *)
AtMostOneResponse ==
    \A r \in Reqs :
        /\ Len(responses[r]) <= 1
        /\ Answered(r) <=> Len(responses[r]) = 1
        /\ Received(r) <=> pc[r] # "idle"

C19_ExactlyOneResponse ==
    /\ []AtMostOneResponse
    /\ \A r \in Reqs : Received(r) ~> Answered(r)

C19_Witness ==
    \E r, q \in Reqs :
        /\ r # q
        /\ Answered(r) /\ Answered(q)
        /\ responses[r] = <<[status |-> 200, body |-> ACK_ERROR]>>
        /\ Len(calls[r]) = 3
        /\ Len(responses[q]) = 1
        /\ responses[q][1].status = 400

====
